---- MODULE Spec2Model ----
(***************************************************************************)
(* Model of the Heka Lua sandbox interface                                 *)
(* (src/sandbox/lua/lua_sandbox_interface.c): the two entry points the     *)
(* host calls (process_message, timer_event), the three callbacks the      *)
(* guest script calls (read_config, read_message, inject_message) and the  *)
(* guest script itself, which runs between the lua_pcall of an entry point *)
(* and its return.                                                         *)
(*                                                                         *)
(* A Lua number that holds an integer is the pair [hi, lo] of its 64-bit   *)
(* two's complement value hi * 2^32 + lo, lo being the signed low word,    *)
(* so that the C conversion (int) of a lua_Integer is the low word.        *)
(***************************************************************************)
EXTENDS Integers, Sequences, FiniteSets, TLC

VARIABLES
    script,      \* the global functions the guest script defines
    lsb_lua,     \* lsb->lua is not NULL (the guest environment is live)
    lsb_error,   \* the error record of the sandbox instance
    lsb_output,  \* the output buffer of the sandbox instance
    pc,          \* "new", "failed", "host", "guest", "pcall_ok" or "pcall_err"
    func_name,   \* the entry point of the most recent call
    guest_args,  \* the arguments the entry point's function was called with
    protected,   \* the guest runs inside its own pcall
    results,     \* the values the guest function returned
    errmsg,      \* the error that left the guest function
    ret,         \* the status the most recent entry-point call returned
    msg_loops,   \* the host's count of injected messages in the current call
    trace,       \* what the most recent entry-point call did, in order
    cb,          \* the callback call the guest just made (NoCb after any other guest step)
    caught,      \* the guest's pcall caught a callback's error in the current call
    init,        \* the sandbox_init call: its handle, what it did and returned
    host_args    \* the arguments the host gave the most recent entry-point call

vars == <<script, lsb_lua, lsb_error, lsb_output, pc, func_name, guest_args,
          protected, results, errmsg, ret, msg_loops, trace, cb,
          caught, init, host_args>>

----------------------------------------------------------------------------
(* Bounds *)

\* chunks the output buffer holds
MaxOutput == 1
\* the host's limit of injected messages per processing cycle
MaxMsgLoops == 3

----------------------------------------------------------------------------
(* Lua values *)

\* A string of the guest or of C is the tuple of its characters.
Nil == [t |-> "nil", hi |-> 0, lo |-> 0, s |-> <<>>]
Bool(b) == [t |-> "boolean", hi |-> 0, lo |-> IF b THEN 1 ELSE 0, s |-> <<>>]
Num(h, l) == [t |-> "number", hi |-> h, lo |-> l, s |-> <<>>]
Str(x) == [t |-> "string", hi |-> 0, lo |-> 0, s |-> x]
Table == [t |-> "table", hi |-> 0, lo |-> 0, s |-> <<>>]
\* a userdata: a circular buffer (1) or another object (0)
UData(k) == [t |-> "userdata", hi |-> 0, lo |-> k, s |-> <<>>]

\* the strings lua_tonumber converts to a number (lua_isnumber is lua_tonumber's
\* success), with the number each converts to
NumericStrings == {<<"0">>, <<"7">>}
StrToNum(x) == IF x = <<"0">> THEN Num(0, 0) ELSE Num(0, 7)

\* the text lua_tolstring gives a number ("%.14g")
NumToStr(v) ==
    CASE v.hi = 0 /\ v.lo = 0 -> <<"0">>
      [] v.hi = 0 /\ v.lo = 1 -> <<"1">>
      [] v.hi = 0 /\ v.lo = 7 -> <<"7">>
      [] v.hi = 0 /\ v.lo = -1 -> <<"-", "1">>
      [] v.hi = 1 /\ v.lo = 0 -> <<"4", "2", "9", "4", "9", "6", "7", "2", "9", "6">>
      [] v.hi = -1 /\ v.lo = 0 -> <<"-", "4", "2", "9", "4", "9", "6", "7", "2", "9", "6">>
      [] OTHER -> <<"n">>

lua_isnumber(v) ==
    \/ v.t = "number"
    \/ v.t = "string" /\ v.s \in NumericStrings

lua_isstring(v) == v.t \in {"string", "number"}

\* lua_tointeger: the lua_Integer (64 bits) of a number or numeric string, 0 otherwise
lua_tointeger(v) ==
    IF v.t = "number" THEN v
    ELSE IF v.t = "string" /\ v.s \in NumericStrings THEN StrToNum(v.s)
    ELSE Num(0, 0)

lua_tostring(v) == IF v.t = "number" THEN NumToStr(v) ELSE v.s

\* lua_pushnumber of a 64-bit integer: the lua_Number (a double) nearest to it,
\* which is the integer itself up to 2^53 and the nearest even integer, ties to
\* the one with an even half, from 2^53 to 2^54 (larger ones are not used here)
lua_pushnumber(n) ==
    IF n.hi >= 2097152 /\ n.hi < 4194304 /\ n.lo % 2 = 1
    THEN Num(n.hi, IF n.lo % 4 = 1 THEN n.lo - 1 ELSE n.lo + 1)
    ELSE n

\* (int) of a lua_Integer: the low 32 bits, signed
ToInt(n) == n.lo

\* the sign of a 64-bit integer
IsNegative(n) == n.hi < 0 \/ (n.hi = 0 /\ n.lo < 0)

\* the stack slot idx after a call adjusted to nresults results
Adjusted(vals, nresults, idx) ==
    IF idx <= nresults /\ idx <= Len(vals) THEN vals[idx] ELSE Nil

----------------------------------------------------------------------------
(* lua_sandbox library *)

lsb_get_lua == lsb_lua

\* 0 when the global func is a function of the guest script
lsb_pcall_setup(func) == IF func \in script THEN 0 ELSE 1

\* closes the guest environment and records the error
lsb_terminate(err) ==
    /\ lsb_lua' = FALSE
    /\ lsb_error' = err

\* an output buffer that keeps its contents when it is read
lsb_get_output_keeping(out) == [output |-> out, len |-> Len(out), left |-> out]

\* the output buffer and its length, and the buffer after the call (emptied)
lsb_get_output(out) == [output |-> out, len |-> Len(out), left |-> <<>>]

\* the structured encoding of a table into the output buffer (append = 0): on
\* success the buffer holds the encoded message, on failure the buffer is empty
\* and the instance's error text names the encoder's failure
EncodeErr == "array has mixed types"
lsb_output_protobuf(result) ==
    [result |-> result,
     output |-> IF result = 0 THEN <<"pb">> ELSE <<>>,
     error |-> IF result = 0 THEN lsb_error ELSE EncodeErr]

\* the serializer of a userdata (append = 0): a circular buffer is written to the
\* output buffer and its type tag returned, another object gives NULL (<<>> here)
lsb_output_userdata(v) ==
    [type |-> IF v.lo = 1 THEN <<"c", "b", "u", "f">> ELSE <<>>,
     ok |-> v.lo = 1,
     output |-> IF v.lo = 1 THEN <<"cbuf">> ELSE <<>>]

\* a callback call: its name and arguments, the error it raised ("" for none),
\* whether it called the host collaborator and with what, the values it pushed
\* for the guest and whether it freed the host's buffer; hres is the result the
\* host's lookup returned and bufops what the callback did with the memory r1
\* points to, in order
NoGr == [r0 |-> 0, null |-> TRUE, s |-> <<>>, r2 |-> 0, hi |-> 0, lo |-> 0]
NoCb == [name |-> "", args |-> <<>>, raised |-> "", host |-> FALSE,
         hpayload |-> <<>>, htype |-> <<>>, hname |-> <<>>, hfield |-> <<>>,
         hfi |-> 0, hai |-> 0, pushed |-> <<>>, freed |-> FALSE,
         hres |-> NoGr, bufops |-> <<>>]

----------------------------------------------------------------------------
(* Calls to Lua *)

NotFoundErr(func) == func \o "() function was not found"
RuntimeErr_bare(func, msg) == msg
RuntimeErr(func, msg) == func \o "() " \o msg
ContractErr(func) == func \o "() must return a single numeric value"

\* if (!lua) return 1;
EntryRefused ==
    /\ ret' = 1
    /\ trace' = <<>>
    /\ UNCHANGED <<lsb_lua, lsb_error, pc, guest_args, msg_loops, results, errmsg, cb,
                   caught>>

\* a missing entry point reported by the status alone, without lsb_terminate
EntryNotFound_unreported(func) ==
    /\ ret' = 1
    /\ trace' = <<"pcall_setup">>
    /\ UNCHANGED <<lsb_lua, lsb_error, pc, guest_args, msg_loops, results, errmsg, cb,
                   caught>>

\* lsb_pcall_setup failed: the entry point is no function of the guest script
EntryNotFound(func) ==
    /\ lsb_terminate(NotFoundErr(func))
    /\ ret' = 1
    /\ trace' = <<"pcall_setup", "terminate">>
    /\ UNCHANGED <<pc, guest_args, msg_loops, results, errmsg, cb, caught>>

\* lua_pcall starts the guest function with the arguments args; the host starts
\* a processing cycle with the call
EntryInvoke(args) ==
    /\ pc' = "guest"
    /\ guest_args' = args
    /\ msg_loops' = 0
    /\ trace' = <<"pcall_setup", "lua_pcall">>
    /\ results' = <<>>
    /\ errmsg' = ""
    /\ cb' = NoCb
    /\ caught' = FALSE
    /\ ret' = 0
    /\ UNCHANGED <<lsb_lua, lsb_error>>

\* a guest error reported to the Termination/Error Reporter twice
EntryRuntimeError_twice(func) ==
    /\ lsb_terminate(RuntimeErr(func, errmsg))
    /\ ret' = 1
    /\ trace' = trace \o <<"terminate", "terminate">>

\* lua_pcall returned non-zero: the error text of the guest is on the stack
EntryRuntimeError(func) ==
    /\ lsb_terminate(RuntimeErr(func, errmsg))
    /\ ret' = 1
    /\ trace' = trace \o <<"terminate">>

\* process_message called on a closed guest environment as on a live one
process_message_unchecked ==
    /\ pc = "host"
    /\ func_name' = "process_message"
    /\ host_args' = <<>>
    /\ IF lsb_pcall_setup("process_message") # 0
       THEN EntryNotFound("process_message")
       ELSE EntryInvoke(<<>>)
    /\ UNCHANGED <<script, init, lsb_output, protected>>

\* process_message up to the start of lua_pcall
process_message ==
    /\ pc = "host"
    /\ func_name' = "process_message"
    /\ host_args' = <<>>
    /\ IF ~lsb_get_lua
       THEN EntryRefused
       ELSE IF lsb_pcall_setup("process_message") # 0
       THEN EntryNotFound("process_message")
       ELSE EntryInvoke(<<>>)
    /\ UNCHANGED <<script, init, lsb_output, protected>>

\* int status = (int)lua_tointeger(lua, 1)
StatusOf(v) == ToInt(lua_tointeger(v))

\* process_message taking a non-zero status of the guest for a failure
process_message_return_failing ==
    /\ func_name = "process_message"
    /\ pc \in {"pcall_ok", "pcall_err"}
    /\ pc' = "host"
    /\ IF pc = "pcall_err"
       THEN EntryRuntimeError("process_message")
       ELSE IF \/ ~lua_isnumber(Adjusted(results, 1, 1))
               \/ StatusOf(Adjusted(results, 1, 1)) # 0
       THEN /\ lsb_terminate(ContractErr("process_message"))
            /\ ret' = 1
            /\ trace' = trace \o <<"terminate">>
       ELSE /\ ret' = StatusOf(Adjusted(results, 1, 1))
            /\ trace' = trace \o <<"teardown">>
            /\ UNCHANGED <<lsb_lua, lsb_error>>
    /\ UNCHANGED <<script, init, host_args, lsb_output, func_name, guest_args,
                   protected, results, errmsg, msg_loops, cb, caught>>

\* process_message from the return of lua_pcall (nresults = 1)
process_message_return ==
    /\ func_name = "process_message"
    /\ pc \in {"pcall_ok", "pcall_err"}
    /\ pc' = "host"
    /\ IF pc = "pcall_err"
       THEN EntryRuntimeError("process_message")
       ELSE IF ~lua_isnumber(Adjusted(results, 1, 1))
       THEN /\ lsb_terminate(ContractErr("process_message"))
            /\ ret' = 1
            /\ trace' = trace \o <<"terminate">>
       ELSE /\ ret' = StatusOf(Adjusted(results, 1, 1))
            /\ trace' = trace \o <<"teardown">>
            /\ UNCHANGED <<lsb_lua, lsb_error>>
    /\ UNCHANGED <<script, init, host_args,
                   lsb_output, func_name, guest_args, protected, results,
                   errmsg, msg_loops, cb, caught>>

\* the elapsed times the host passes: 7 ns and 2^53 + 1 ns
Elapsed == {Num(0, 7), Num(2097152, 1)}

\* timer_event handing the guest the value 0 whatever time elapsed
timer_event_no_elapsed ==
    /\ pc = "host"
    /\ func_name' = "timer_event"
    /\ \E ns \in Elapsed :
         /\ host_args' = <<ns>>
         /\ IF ~lsb_get_lua
            THEN EntryRefused
            ELSE IF lsb_pcall_setup("timer_event") # 0
            THEN EntryNotFound("timer_event")
            ELSE EntryInvoke(<<Num(0, 0)>>)
    /\ UNCHANGED <<script, init, lsb_output, protected>>

\* timer_event up to the start of lua_pcall
timer_event ==
    /\ pc = "host"
    /\ func_name' = "timer_event"
    /\ \E ns \in Elapsed :
         /\ host_args' = <<ns>>
         /\ IF ~lsb_get_lua
            THEN EntryRefused
            ELSE IF lsb_pcall_setup("timer_event") # 0
            THEN EntryNotFound("timer_event")
            ELSE EntryInvoke(<<lua_pushnumber(ns)>>)
    /\ UNCHANGED <<script, init, lsb_output, protected>>

\* timer_event with the collection run before the teardown, on every path
timer_event_return_gc_first ==
    /\ func_name = "timer_event"
    /\ pc \in {"pcall_ok", "pcall_err"}
    /\ pc' = "host"
    /\ IF pc = "pcall_err"
       THEN /\ lsb_terminate(RuntimeErr("timer_event", errmsg))
            /\ ret' = 1
            /\ trace' = trace \o <<"gc", "terminate">>
       ELSE /\ ret' = 0
            /\ trace' = trace \o <<"gc", "teardown">>
            /\ UNCHANGED <<lsb_lua, lsb_error>>
    /\ UNCHANGED <<script, init, host_args,
                   lsb_output, func_name, guest_args, protected, results,
                   errmsg, msg_loops, cb, caught>>

\* timer_event from the return of lua_pcall (nresults = 0)
timer_event_return ==
    /\ func_name = "timer_event"
    /\ pc \in {"pcall_ok", "pcall_err"}
    /\ pc' = "host"
    /\ IF pc = "pcall_err"
       THEN EntryRuntimeError("timer_event")
       ELSE /\ ret' = 0
            /\ trace' = trace \o <<"teardown", "gc">>
            /\ UNCHANGED <<lsb_lua, lsb_error>>
    /\ UNCHANGED <<script, init, host_args,
                   lsb_output, func_name, guest_args, protected, results,
                   errmsg, msg_loops, cb, caught>>

----------------------------------------------------------------------------
(* The guest script *)

\* the value lists a guest function returns
ReturnValues ==
    {Nil, Bool(TRUE), Num(0, 0), Num(0, 7), Num(0, -1), Num(1, 0), Num(1, 7),
     Str(<<"7">>), Str(<<"a", "b", "c">>), Table}
Returns ==
    {<<>>} \cup {<<v>> : v \in ReturnValues}
           \cup {<<v, w>> : v \in {Nil, Num(0, 0), Num(0, 7)}, w \in {Nil, Num(0, 7)}}

\* the errors a guest raises itself
GuestErrors == {"boom"}

\* the guest function returns
guest_return ==
    /\ pc = "guest"
    /\ ~protected
    /\ \E vals \in Returns : results' = vals
    /\ pc' = "pcall_ok"
    /\ cb' = NoCb
    /\ UNCHANGED <<script, init, host_args,
                   lsb_lua, lsb_error, lsb_output, func_name, guest_args,
                   protected, errmsg, ret, msg_loops, trace, caught>>

\* an error raised in the guest: caught by the guest's pcall when there is one,
\* leaving the entry point's function otherwise
Raise(msg) ==
    IF protected
    THEN /\ protected' = FALSE
         /\ UNCHANGED <<pc, errmsg>>
    ELSE /\ pc' = "pcall_err"
         /\ errmsg' = msg
         /\ UNCHANGED protected

\* the guest calls error()
guest_error ==
    /\ pc = "guest"
    /\ \E msg \in GuestErrors : Raise(msg)
    /\ cb' = NoCb
    /\ UNCHANGED <<script, init, host_args,
                   lsb_lua, lsb_error, lsb_output, func_name, guest_args,
                   results, ret, msg_loops, trace, caught>>

\* the guest enters pcall
guest_pcall ==
    /\ pc = "guest"
    /\ ~protected
    /\ protected' = TRUE
    /\ cb' = NoCb
    /\ UNCHANGED <<script, init, host_args,
                   lsb_lua, lsb_error, lsb_output, pc, func_name, guest_args,
                   results, errmsg, ret, msg_loops, trace, caught>>

\* the function the guest called under pcall returns
guest_pcall_return ==
    /\ pc = "guest"
    /\ protected
    /\ protected' = FALSE
    /\ cb' = NoCb
    /\ UNCHANGED <<script, init, host_args,
                   lsb_lua, lsb_error, lsb_output, pc, func_name, guest_args,
                   results, errmsg, ret, msg_loops, trace, caught>>

\* the guest stages a chunk of output (the sandbox's output function)
guest_output ==
    /\ pc = "guest"
    /\ Len(lsb_output) < MaxOutput
    /\ lsb_output' = Append(lsb_output, "x")
    /\ cb' = NoCb
    /\ UNCHANGED <<script, init, host_args,
                   lsb_lua, lsb_error, pc, func_name, guest_args, protected,
                   results, errmsg, ret, msg_loops, trace, caught>>

----------------------------------------------------------------------------
(* Calls from Lua *)

\* what no callback changes
CbFrame ==
    UNCHANGED <<script, init, host_args, func_name, guest_args, results, ret,
                trace>>

\* a callback that reports its error through lsb_terminate as well
CbRaise_terminating(rec, msg) ==
    /\ cb' = [rec EXCEPT !.raised = msg]
    /\ caught' = (caught \/ protected)
    /\ Raise(msg)
    /\ lsb_lua' = FALSE

\* a callback that calls its host collaborator before it raises
CbRaise_after_host(rec, msg) ==
    /\ cb' = [rec EXCEPT !.raised = msg, !.host = TRUE]
    /\ caught' = (caught \/ protected)
    /\ Raise(msg)
    /\ UNCHANGED lsb_lua

\* the callback raises a Lua error (luaL_error, luaL_argerror, luaL_typerror)
CbRaise(rec, msg) ==
    /\ cb' = [rec EXCEPT !.raised = msg]
    /\ caught' = (caught \/ protected)
    /\ Raise(msg)
    /\ UNCHANGED lsb_lua

\* the callback returns to the guest
CbReturn(rec) ==
    /\ cb' = rec
    /\ UNCHANGED <<pc, errmsg, protected, caught, lsb_lua>>

ArgErr(narg, fname, extramsg) ==
    "bad argument #" \o narg \o " to '" \o fname \o "' (" \o extramsg \o ")"
TypeErr(narg, fname, tname, v) ==
    ArgErr(narg, fname, tname \o " expected, got " \o v.t)

\* luaL_optinteger(lua, narg, 0): absent or nil gives the default, a number or
\* numeric string its integer; anything else is an error
lua_isnoneornil(args, narg) == narg > Len(args) \/ args[narg].t = "nil"
OptIntegerOk(args, narg) == lua_isnoneornil(args, narg) \/ lua_isnumber(args[narg])
luaL_optinteger(args, narg) ==
    IF lua_isnoneornil(args, narg) THEN Num(0, 0) ELSE lua_tointeger(args[narg])

\* strncmp(a, b, n) == 0
Prefix(x, n) == SubSeq(x, 1, IF Len(x) < n THEN Len(x) ELSE n)
strncmp_eq(a, b, n) == Prefix(a, n) = Prefix(b, n)

\* what the host's lookups return: the kind r0, the pointer r1 (NULL or to the
\* bytes s, or to the integer, float or boolean hi, lo) and the length r2
Gr(k, isnull, bytes, h, l) ==
    [r0 |-> k, null |-> isnull, s |-> bytes, r2 |-> Len(bytes), hi |-> h, lo |-> l]
HostResults ==
    {Gr(0, TRUE, <<>>, 0, 0),
     Gr(0, FALSE, <<"a", "b">>, 0, 0),
     Gr(1, FALSE, <<"a", "b">>, 0, 0),
     Gr(2, FALSE, <<>>, 1, 7),
     Gr(3, FALSE, <<>>, 0, 7),
     Gr(4, FALSE, <<>>, 0, 1),
     Gr(4, FALSE, <<>>, 0, 0),
     Gr(5, FALSE, <<>>, 0, 0)}

\* the results the host's message lookup gives: any of them for a field asked by
\* name alone, absent or a stable string for an element asked by its indices
IndexedResults == {Gr(0, TRUE, <<>>, 0, 0), Gr(1, FALSE, <<"a", "b">>, 0, 0)}
MessageResults(args) == IF Len(args) = 1 THEN HostResults ELSE IndexedResults

lua_pushlstring(bytes, len) == Str(SubSeq(bytes, 1, len))

\* read_config taking the reference-string kind as read_message does
ConfigValue_reference(gr) ==
    IF gr.null THEN Nil
    ELSE CASE gr.r0 \in {0, 1} -> lua_pushlstring(gr.s, gr.r2)
           [] gr.r0 = 3 -> Num(gr.hi, gr.lo)
           [] gr.r0 = 4 -> Bool(gr.lo # 0)
           [] OTHER -> Nil

\* the value read_config pushes for the host's result
ConfigValue(gr) ==
    IF gr.null THEN Nil
    ELSE CASE gr.r0 = 0 -> lua_pushlstring(gr.s, gr.r2)
           [] gr.r0 = 3 -> Num(gr.hi, gr.lo)
           [] gr.r0 = 4 -> Bool(gr.lo # 0)
           [] OTHER -> Nil

\* what read_config does with the memory of the host's result
ConfigOps(gr) ==
    IF gr.null THEN <<>>
    ELSE CASE gr.r0 = 0 -> <<"copy", "free">>
           [] gr.r0 = 3 -> <<"read64">>
           [] gr.r0 = 4 -> <<"read8">>
           [] OTHER -> <<>>

ConfigArgs ==
    {<<>>, <<Str(<<"x">>)>>, <<Num(0, 1)>>, <<Table>>, <<Str(<<"x">>), Str(<<"y">>)>>}

read_config ==
    /\ pc = "guest"
    /\ \E args \in ConfigArgs :
         LET rec == [NoCb EXCEPT !.name = "read_config", !.args = args]
         IN  IF Len(args) # 1
             THEN CbRaise(rec, "read_config() must have a single argument")
             ELSE IF ~lua_isstring(args[1])
             THEN CbRaise(rec, TypeErr("1", "read_config", "string", args[1]))
             ELSE \E gr \in HostResults :
                    CbReturn([rec EXCEPT !.host = TRUE,
                                         !.hname = lua_tostring(args[1]),
                                         !.pushed = <<ConfigValue(gr)>>,
                                         !.freed = (~gr.null /\ gr.r0 = 0),
                                         !.hres = gr,
                                         !.bufops = ConfigOps(gr)])
    /\ UNCHANGED <<lsb_error, lsb_output, msg_loops>>
    /\ CbFrame

Pid == <<"P", "i", "d">>
Severity == <<"S", "e", "v", "e", "r", "i", "t", "y">>

\* the value read_message pushes for the host's result
MessageValue(field, gr) ==
    IF gr.null THEN Nil
    ELSE CASE gr.r0 = 0 -> lua_pushlstring(gr.s, gr.r2)
           [] gr.r0 = 1 -> lua_pushlstring(gr.s, gr.r2)
           [] gr.r0 = 2 -> IF strncmp_eq(Pid, field, 3) \/ strncmp_eq(Severity, field, 8)
                           THEN Num(IF gr.lo < 0 THEN -1 ELSE 0, gr.lo)
                           ELSE lua_pushnumber(Num(gr.hi, gr.lo))
           [] gr.r0 = 3 -> Num(gr.hi, gr.lo)
           [] gr.r0 = 4 -> Bool(gr.lo # 0)
           [] OTHER -> Nil

\* read_message freeing the stable string of the host as well
MessageOps_free_reference(field, gr) ==
    IF gr.null THEN <<>>
    ELSE CASE gr.r0 \in {0, 1} -> <<"copy", "free">>
           [] gr.r0 = 2 -> <<"read64">>
           [] gr.r0 = 3 -> <<"read64">>
           [] gr.r0 = 4 -> <<"read8">>
           [] OTHER -> <<>>

\* what read_message does with the memory of the host's result
MessageOps(field, gr) ==
    IF gr.null THEN <<>>
    ELSE CASE gr.r0 = 0 -> <<"copy", "free">>
           [] gr.r0 = 1 -> <<"copy">>
           [] gr.r0 = 2 -> IF strncmp_eq(Pid, field, 3) \/ strncmp_eq(Severity, field, 8)
                           THEN <<"read32">>
                           ELSE <<"read64">>
           [] gr.r0 = 3 -> <<"read64">>
           [] gr.r0 = 4 -> <<"read8">>
           [] OTHER -> <<>>

Fields == {Str(Pid), Str(Pid \o <<"x">>), Str(Severity), Str(<<"T", "y", "p", "e">>)}
Indices == {Nil, Num(0, 0), Num(0, 1), Num(0, -1), Num(-1, 0), Table}
MessageArgs ==
    {<<>>, <<Table>>, <<Str(Pid), Num(0, 0), Num(0, 0), Num(0, 0)>>}
      \cup {<<f>> : f \in Fields}
      \cup {<<Str(Pid), i>> : i \in Indices}
      \cup {<<Str(Pid), Num(0, 1), j>> : j \in Indices}

read_message ==
    /\ pc = "guest"
    /\ \E args \in MessageArgs :
         LET rec == [NoCb EXCEPT !.name = "read_message", !.args = args]
             n == Len(args)
             fi == ToInt(luaL_optinteger(args, 2))
             ai == ToInt(luaL_optinteger(args, 3))
         IN  IF n < 1 \/ n > 3
             THEN CbRaise(rec, "read_message() incorrect number of arguments")
             ELSE IF ~lua_isstring(args[1])
             THEN CbRaise(rec, TypeErr("1", "read_message", "string", args[1]))
             ELSE IF ~OptIntegerOk(args, 2)
             THEN CbRaise(rec, TypeErr("2", "read_message", "number", args[2]))
             ELSE IF ~(fi >= 0)
             THEN CbRaise(rec, ArgErr("2", "read_message", "field index must be >= 0"))
             ELSE IF ~OptIntegerOk(args, 3)
             THEN CbRaise(rec, TypeErr("3", "read_message", "number", args[3]))
             ELSE IF ~(ai >= 0)
             THEN CbRaise(rec, ArgErr("3", "read_message", "array index must be >= 0"))
             ELSE \E gr \in MessageResults(args) :
                    CbReturn([rec EXCEPT !.host = TRUE,
                                         !.hfield = lua_tostring(args[1]),
                                         !.hfi = fi,
                                         !.hai = ai,
                                         !.pushed = <<MessageValue(lua_tostring(args[1]), gr)>>,
                                         !.freed = (~gr.null /\ gr.r0 = 0),
                                         !.hres = gr,
                                         !.bufops = MessageOps(lua_tostring(args[1]), gr)])
    /\ UNCHANGED <<lsb_error, lsb_output, msg_loops>>
    /\ CbFrame

default_type == <<"t", "x", "t">>
default_name == <<>>

\* the host's injection collaborator: non-zero once the injected messages of the
\* processing cycle reach the loop limit
go_lua_inject_message(loops) == IF loops + 1 >= MaxMsgLoops THEN 1 ELSE 0

\* the type tag a string argument gives, the empty string kept
TypeTag_nodefault(v) == lua_tostring(v)

\* type = lua_tostring(lua, 1); if (strlen(type) == 0) type = default_type;
TypeTag(v) == IF Len(lua_tostring(v)) = 0 THEN default_type ELSE lua_tostring(v)

\* the payload handed to the host whatever its length
Deliver_unguarded(rec, type, name, out) ==
    LET got == lsb_get_output(out)
        sent == [rec EXCEPT !.host = TRUE, !.hpayload = got.output,
                            !.htype = type, !.hname = name]
    IN  /\ lsb_output' = got.left
        /\ msg_loops' = IF msg_loops < MaxMsgLoops THEN msg_loops + 1 ELSE msg_loops
        /\ IF go_lua_inject_message(msg_loops) # 0
           THEN CbRaise(sent, "inject_message() exceeded MaxMsgLoops")
           ELSE CbReturn(sent)

\* the host's status dropped
Deliver_unchecked(rec, type, name, out) ==
    LET got == lsb_get_output(out)
        sent == [rec EXCEPT !.host = TRUE, !.hpayload = got.output,
                            !.htype = type, !.hname = name]
    IN  /\ lsb_output' = got.left
        /\ IF got.len # 0
           THEN /\ msg_loops' = IF msg_loops < MaxMsgLoops THEN msg_loops + 1
                                                          ELSE msg_loops
                /\ CbReturn(sent)
           ELSE /\ CbReturn(rec)
                /\ UNCHANGED msg_loops

\* inject_message from lsb_get_output on: the payload out staged by the argument
\* resolution goes to the host when it is not empty
Deliver(rec, type, name, out) ==
    LET got == lsb_get_output(out)
        sent == [rec EXCEPT !.host = TRUE, !.hpayload = got.output,
                            !.htype = type, !.hname = name]
    IN  /\ lsb_output' = got.left
        /\ IF got.len # 0
           THEN /\ msg_loops' = IF msg_loops < MaxMsgLoops THEN msg_loops + 1
                                                          ELSE msg_loops
                /\ IF go_lua_inject_message(msg_loops) # 0
                   THEN CbRaise(sent, "inject_message() exceeded MaxMsgLoops")
                   ELSE CbReturn(sent)
           ELSE /\ CbReturn(rec)
                /\ UNCHANGED msg_loops

InjectArgs ==
    {<<>>, <<Nil>>, <<Num(0, 1)>>, <<Table>>, <<UData(1)>>, <<UData(0)>>,
     <<Str(<<>>)>>, <<Str(<<"c", "s", "v">>)>>,
     <<Str(<<"c", "s", "v">>), Str(<<"n", "a", "m", "e", "1">>)>>,
     <<Str(<<>>), Str(<<"n", "a", "m", "e", "1">>)>>,
     <<Str(<<"c", "s", "v">>), Num(0, 7)>>,
     <<Str(<<"c", "s", "v">>), Table>>,
     <<Table, Str(<<"n", "a", "m", "e", "1">>)>>,
     <<Num(0, 1), Table>>,
     <<Str(<<"c", "s", "v">>), Str(<<"n", "a", "m", "e", "1">>), Nil>>}

inject_message ==
    /\ pc = "guest"
    /\ \E args \in InjectArgs :
         LET rec == [NoCb EXCEPT !.name = "inject_message", !.args = args]
             n == Len(args)
             name == IF n = 2 THEN lua_tostring(args[2]) ELSE default_name
         IN  IF n > 2
             THEN /\ CbRaise(rec, "inject_message() takes a maximum of 2 arguments")
                  /\ UNCHANGED <<lsb_error, lsb_output, msg_loops>>
             ELSE IF n = 2 /\ ~lua_isstring(args[2])
             THEN /\ CbRaise(rec, TypeErr("2", "inject_message", "string", args[2]))
                  /\ UNCHANGED <<lsb_error, lsb_output, msg_loops>>
             ELSE IF n = 0
             THEN /\ Deliver(rec, default_type, name, lsb_output)
                  /\ UNCHANGED lsb_error
             ELSE IF args[1].t = "string"
             THEN /\ Deliver(rec, TypeTag(args[1]), name, lsb_output)
                  /\ UNCHANGED lsb_error
             ELSE IF args[1].t = "table"
             THEN \E result \in {0, 1} :
                    LET enc == lsb_output_protobuf(result)
                    IN  IF enc.result # 0
                        THEN /\ lsb_error' = enc.error
                             /\ lsb_output' = enc.output
                             /\ CbRaise(rec, "inject_message() cound not encode protobuf - "
                                             \o enc.error)
                             /\ UNCHANGED msg_loops
                        ELSE /\ Deliver(rec, <<>>, name, enc.output)
                             /\ UNCHANGED lsb_error
             ELSE IF args[1].t = "userdata"
             THEN LET ud == lsb_output_userdata(args[1])
                  IN  IF ~ud.ok
                      THEN /\ CbRaise(rec, TypeErr("1", "inject_message",
                                                   "circular_buffer", args[1]))
                           /\ lsb_output' = ud.output
                           /\ UNCHANGED <<lsb_error, msg_loops>>
                      ELSE /\ Deliver(rec, ud.type, name, ud.output)
                           /\ UNCHANGED lsb_error
             ELSE /\ CbRaise(rec, TypeErr("1", "inject_message",
                                          "string, table, or circular_buffer", args[1]))
                  /\ UNCHANGED <<lsb_error, lsb_output, msg_loops>>
    /\ CbFrame

----------------------------------------------------------------------------
(* Initialization *)

\* the sandbox_init call: lsb is the handle being valid, setup the result of
\* lsb_init (-1 when it was not called), ret the status returned and trace the
\* registrations and the setup in the order they were made
NoInit == [lsb |-> FALSE, setup |-> -1, ret |-> 0, trace |-> <<>>]

\* the statuses lsb_init returns
SetupResults == {0, 1, 2}

\* lsb_add_function makes the C function a global of the guest environment
lsb_add_function(tr, name) == Append(tr, name)

\* sandbox_init with the environment set up before the callbacks are registered
sandbox_init_setup_first ==
    /\ pc = "new"
    /\ \E valid \in BOOLEAN :
         IF ~valid
         THEN /\ init' = [NoInit EXCEPT !.ret = 1]
              /\ pc' = "failed"
         ELSE \E result \in SetupResults :
                LET added == lsb_add_function(lsb_add_function(lsb_add_function(
                                 <<"lsb_init">>, "read_config"), "read_message"),
                                 "inject_message")
                IN  /\ init' = [lsb |-> TRUE, setup |-> result,
                                ret |-> IF result # 0 THEN result ELSE 0,
                                trace |-> added]
                    /\ pc' = IF result # 0 THEN "failed" ELSE "host"
    /\ UNCHANGED <<script, lsb_lua, lsb_error, lsb_output, func_name, guest_args,
                   protected, results, errmsg, ret, msg_loops, trace, cb, caught,
                   host_args>>

\* sandbox_init; after a failure the host makes no further call on the instance
sandbox_init ==
    /\ pc = "new"
    /\ \E valid \in BOOLEAN :
         IF ~valid
         THEN /\ init' = [NoInit EXCEPT !.ret = 1]
              /\ pc' = "failed"
         ELSE \E result \in SetupResults :
                LET added == lsb_add_function(lsb_add_function(lsb_add_function(
                                 <<>>, "read_config"), "read_message"),
                                 "inject_message")
                IN  /\ init' = [lsb |-> TRUE, setup |-> result,
                                ret |-> IF result # 0 THEN result ELSE 0,
                                trace |-> Append(added, "lsb_init")]
                    /\ pc' = IF result # 0 THEN "failed" ELSE "host"
    /\ UNCHANGED <<script, lsb_lua, lsb_error, lsb_output, func_name, guest_args,
                   protected, results, errmsg, ret, msg_loops, trace, cb, caught,
                   host_args>>

----------------------------------------------------------------------------

EntryPoints == {"process_message", "timer_event"}

Init ==
    /\ script \in SUBSET EntryPoints
    /\ lsb_lua = TRUE
    /\ lsb_error = ""
    /\ lsb_output = <<>>
    /\ pc = "new"
    /\ func_name = ""
    /\ guest_args = <<>>
    /\ protected = FALSE
    /\ results = <<>>
    /\ errmsg = ""
    /\ ret = 0
    /\ msg_loops = 0
    /\ trace = <<>>
    /\ cb = NoCb
    /\ caught = FALSE
    /\ init = NoInit
    /\ host_args = <<>>

Next ==
    \/ sandbox_init
    \/ process_message
    \/ process_message_return
    \/ timer_event
    \/ timer_event_return
    \/ guest_return
    \/ guest_error
    \/ guest_pcall
    \/ guest_pcall_return
    \/ guest_output
    \/ read_config
    \/ read_message
    \/ inject_message

Spec == Init /\ [][Next]_vars

----------------------------------------------------------------------------
(* Properties *)

InTrace(e) == \E i \in 1..Len(trace) : trace[i] = e
InTraceNext(e) == \E i \in 1..Len(trace') : trace'[i] = e
Count(e) == Cardinality({i \in 1..Len(trace) : trace[i] = e})

\* the steps of the model, told by the position they leave and the record they
\* write: the entry point f up to its lua_pcall, the entry point f from the return
\* of its lua_pcall, and the callback n
Called(f) == pc = "host" /\ func_name' = f
Returned(f) == pc \in {"pcall_ok", "pcall_err"} /\ func_name = f
Callback(n) == pc = "guest" /\ cb'.name = n

\* C1: once the instance is terminated, every later process_message or
\* timer_event call returns a non-zero status, resolves and invokes no guest entry
\* point, calls no host collaborator and leaves the error record as it was.
C1_TerminatedInert ==
    [][((Called("process_message") \/ Called("timer_event")) /\ ~lsb_lua) =>
           /\ ret' # 0
           /\ ~InTraceNext("pcall_setup")
           /\ ~InTraceNext("lua_pcall")
           /\ pc' = "host"
           /\ UNCHANGED <<lsb_lua, lsb_error, lsb_output, msg_loops, cb>>]_vars

\* a call was refused on the terminated instance
C1_Witness ==
    /\ ~lsb_lua
    /\ pc = "host"
    /\ func_name = "timer_event"
    /\ trace = <<>>
    /\ ret = 1
    /\ lsb_error = "process_message() boom"

\* C2: on a live instance whose guest script does not define the entry point,
\* process_message (and timer_event) returns non-zero, the error record reads
\* "<entry_point>() function was not found", the guest is not invoked and the
\* instance is left terminated.
C2_EntryPointMissing ==
    [][/\ (Called("process_message") /\ lsb_lua /\ "process_message" \notin script) =>
              /\ ret' # 0
              /\ lsb_error' = "process_message() function was not found"
              /\ ~InTraceNext("lua_pcall")
              /\ pc' = "host"
              /\ ~lsb_lua'
       /\ (Called("timer_event") /\ lsb_lua /\ "timer_event" \notin script) =>
              /\ ret' # 0
              /\ lsb_error' = "timer_event() function was not found"
              /\ ~InTraceNext("lua_pcall")
              /\ pc' = "host"
              /\ ~lsb_lua']_vars

C2_Witness ==
    /\ pc = "host"
    /\ "timer_event" \notin script
    /\ func_name = "timer_event"
    /\ trace = <<"pcall_setup", "terminate">>
    /\ ret = 1
    /\ ~lsb_lua
    /\ lsb_error = "timer_event() function was not found"

\* the guest function of the most recent process_message call returned
ProcessMessageReturned ==
    /\ pc = "host"
    /\ func_name = "process_message"
    /\ Len(trace) = 3
    /\ trace[2] = "lua_pcall"
    /\ errmsg = ""

ContractViolation ==
    /\ ret # 0
    /\ ~lsb_lua
    /\ lsb_error = "process_message() must return a single numeric value"

\* a number, or a string that reads as one
Numeric(v) == v.t = "number" \/ (v.t = "string" /\ v.s \in NumericStrings)

\* C3: when the guest function of process_message returns one value without
\* raising, a non-numeric value is a ContractViolation, the number 0 gives
\* status 0 and a non-zero integer k gives status exactly k.
C3_ReturnContract ==
    (ProcessMessageReturned /\ Len(results) = 1) =>
        LET v == results[1]
        IN  /\ ~Numeric(v) => ContractViolation
            /\ (v.t = "number" /\ v.hi = 0 /\ v.lo = 0) => (ret = 0 /\ lsb_lua)
            /\ (v.t = "number" /\ ~(v.hi = 0 /\ v.lo = 0)) =>
                   (lsb_lua /\ v.hi = 0 /\ ret = v.lo)

\* C4: process_message fails with ContractViolation whenever the guest function
\* returns no value or more than one value, whatever the values are.
C4_ArityContract ==
    (ProcessMessageReturned /\ Len(results) # 1) => ContractViolation

\* C5: a timer_event call that returns 0 runs the garbage collector exactly
\* once, after the guest call and its teardown; a failed timer_event, a
\* process_message call and a running guest call run it not at all.
C5_GcAfterTimer ==
    IF pc = "host" /\ func_name = "timer_event" /\ ret = 0
    THEN trace = <<"pcall_setup", "lua_pcall", "teardown", "gc">>
    ELSE Count("gc") = 0

C5_Witness ==
    /\ pc = "host"
    /\ func_name = "timer_event"
    /\ ret = 0
    /\ Count("gc") = 1
    /\ trace[Len(trace)] = "gc"

InjectionLoopLimitExceeded == "inject_message() exceeded MaxMsgLoops"

\* argument k of the most recent callback call is a negative number
NegativeArg(k) ==
    /\ Len(cb.args) >= k
    /\ cb.args[k].t = "number"
    /\ IsNegative(cb.args[k])

\* argument k of the most recent callback call is absent, nil or a number >= 0
ValidIndexArg(k) ==
    \/ Len(cb.args) < k
    \/ cb.args[k].t = "nil"
    \/ cb.args[k].t = "number" /\ ~IsNegative(cb.args[k])

\* C6: read_message called with a negative field index or a negative array index
\* raises ArgumentRangeError and makes no host lookup; the host lookup happens
\* only after the field name and both indices have been validated.
C6_NegativeIndexRejected ==
    (cb.name = "read_message" /\ Len(cb.args) \in 1..3 /\ cb.args[1].t = "string") =>
        /\ NegativeArg(2) =>
               /\ ~cb.host
               /\ cb.raised = "bad argument #2 to 'read_message' (field index must be >= 0)"
        /\ (ValidIndexArg(2) /\ NegativeArg(3)) =>
               /\ ~cb.host
               /\ cb.raised = "bad argument #3 to 'read_message' (array index must be >= 0)"
        /\ cb.host => (ValidIndexArg(2) /\ ValidIndexArg(3))

\* the arguments of an inject_message call that stages no payload itself: none,
\* or a string type tag with, at most, a name that is a string or a number
TagCall(args) ==
    \/ Len(args) = 0
    \/ /\ Len(args) \in {1, 2}
       /\ args[1].t = "string"
       /\ Len(args) = 2 => args[2].t \in {"string", "number"}

\* the arguments inject_message accepts: at most two, the first a string, a table
\* or a circular buffer, the name a string or a number
AcceptedCall(args) ==
    \/ Len(args) = 0
    \/ /\ Len(args) \in {1, 2}
       /\ args[1].t \in {"string", "table"} \/ args[1] = UData(1)
       /\ Len(args) = 2 => args[2].t \in {"string", "number"}

\* C7: inject_message called (with arguments it accepts) while the output buffer
\* is empty makes no call to the host injection collaborator and returns
\* normally; the host is called only when the output buffer is not empty after
\* payload resolution.
C7_EmptyBufferNoInjection ==
    [][Callback("inject_message") =>
           /\ (lsb_output = <<>> /\ AcceptedCall(cb'.args)) =>
                  (~cb'.host /\ cb'.raised = "")
           /\ cb'.host => Len(cb'.hpayload) # 0]_vars

\* C7, amended: inject_message called with no argument, or with a string type
\* tag and at most a string or number name, while the output buffer is empty
\* makes no call to the host injection collaborator and returns normally; in
\* every call the host is called only when the output buffer is not empty after
\* payload resolution.
C7_EmptyBufferNoInjection_Amended ==
    [][Callback("inject_message") =>
           /\ (lsb_output = <<>> /\ TagCall(cb'.args)) => (~cb'.host /\ cb'.raised = "")
           /\ cb'.host => Len(cb'.hpayload) # 0]_vars

\* inject_message() returned with nothing staged and nothing injected
C7_Witness ==
    /\ pc = "guest"
    /\ cb.name = "inject_message"
    /\ cb.args = <<>>
    /\ ~cb.host
    /\ cb.raised = ""
    /\ msg_loops = 0
    /\ lsb_output = <<>>

\* C8: with a non-empty output buffer, inject_message(t, n) with strings t and n
\* delegates to the host with type tag t and name n, inject_message("") with type
\* tag "txt", inject_message() with type tag "txt" and the empty name, and a call
\* with one argument with the empty name.
C8_TypeAndName ==
    [][(Callback("inject_message") /\ lsb_output # <<>>) =>
           LET a == cb'.args
           IN  /\ Len(a) = 0 =>
                      /\ cb'.host
                      /\ cb'.htype = <<"t", "x", "t">>
                      /\ cb'.hname = <<>>
               /\ (Len(a) = 2 /\ a[1].t = "string" /\ a[2].t = "string") =>
                      /\ cb'.host
                      /\ cb'.htype = IF a[1].s = <<>> THEN <<"t", "x", "t">> ELSE a[1].s
                      /\ cb'.hname = a[2].s
               /\ (Len(a) = 1 /\ a[1].t = "string") =>
                      /\ cb'.host
                      /\ cb'.htype = IF a[1].s = <<>> THEN <<"t", "x", "t">> ELSE a[1].s
               /\ (Len(a) = 1 /\ cb'.host) => cb'.hname = <<>>
               /\ (TagCall(a) /\ cb'.host) => cb'.hpayload = lsb_output]_vars

\* inject_message("", "name1") delegated as type "txt", name "name1"
C8_Witness ==
    /\ cb.name = "inject_message"
    /\ cb.args = <<Str(<<>>), Str(<<"n", "a", "m", "e", "1">>)>>
    /\ cb.host
    /\ cb.htype = <<"t", "x", "t">>
    /\ cb.hname = <<"n", "a", "m", "e", "1">>
    /\ cb.hpayload = <<"x">>

\* C9: msg_loops counts the inject_message calls of the processing cycle that
\* reached the host; with the loop limit N = MaxMsgLoops the calls 1..N-1 return
\* normally to the guest and call N raises InjectionLoopLimitExceeded.
C9_LoopLimit ==
    [][(Callback("inject_message") /\ cb'.host /\ msg_loops < MaxMsgLoops) =>
           /\ msg_loops' = msg_loops + 1
           /\ msg_loops' < MaxMsgLoops => (cb'.raised = "" /\ pc' = "guest")
           /\ msg_loops' = MaxMsgLoops =>
                  /\ cb'.raised = "inject_message() exceeded MaxMsgLoops"
                  /\ (pc' = "pcall_err" \/ caught')]_vars

\* call N of the cycle raised, after N-1 calls that did not end the guest function
C9_Witness ==
    /\ msg_loops = MaxMsgLoops
    /\ cb.name = "inject_message"
    /\ cb.host
    /\ cb.raised = InjectionLoopLimitExceeded
    /\ pc = "pcall_err"

\* C10: an error raised by a callback leaves the instance live; caught by the
\* guest's own protected call it leaves the guest running, and the entry point
\* can still return success; uncaught it leaves the guest function, and only then
\* process_message / timer_event fails with GuestRuntimeError and terminates.
C10_CallbackErrorsNotTerminal ==
    [][/\ (\E n \in {"read_config", "read_message", "inject_message"} : Callback(n)) =>
              /\ lsb_lua' = lsb_lua
              /\ (cb'.raised # "" /\ protected) =>
                     (pc' = "guest" /\ errmsg' = errmsg /\ caught')
              /\ (cb'.raised # "" /\ ~protected) =>
                     (pc' = "pcall_err" /\ errmsg' = cb'.raised)
              /\ cb'.raised = "" => pc' = "guest"
       /\ ((Returned("process_message") \/ Returned("timer_event")) /\ pc = "pcall_err") =>
              /\ ~lsb_lua'
              /\ ret' # 0
              /\ lsb_error' = func_name \o "() " \o errmsg
       /\ (Returned("timer_event") /\ pc = "pcall_ok") => (lsb_lua' /\ ret' = 0)
       /\ (Returned("process_message") /\ pc = "pcall_ok" /\ results = <<Num(0, 0)>>) =>
              (lsb_lua' /\ ret' = 0)]_vars

\* process_message returned success although a callback had raised an error
C10_Witness ==
    /\ pc = "host"
    /\ func_name = "process_message"
    /\ caught
    /\ ret = 0
    /\ lsb_lua
    /\ trace = <<"pcall_setup", "lua_pcall", "teardown">>

\* C11: an inject_message call that delegated to the host and returned normally
\* leaves the output buffer empty, and an inject_message() that follows it
\* immediately (no output staged in between) finds the buffer empty and makes no
\* host delegation call: the payload is not injected a second time.
C11_InjectionClearsBuffer ==
    [][Callback("inject_message") =>
           /\ (cb'.host /\ cb'.raised = "") => lsb_output' = <<>>
           /\ (/\ cb.name = "inject_message"
               /\ cb.host
               /\ cb.raised = ""
               /\ cb'.args = <<>>) =>
                  (~cb'.host /\ cb'.raised = "" /\ lsb_output' = <<>>)]_vars

\* inject_message() found nothing to inject after the one injection of the call
C11_Witness ==
    /\ pc = "guest"
    /\ cb.name = "inject_message"
    /\ cb.args = <<>>
    /\ ~cb.host
    /\ cb.raised = ""
    /\ msg_loops = 1
    /\ lsb_output = <<>>

\* C12: read_config with exactly one string argument returns exactly one value,
\* fixed by the host's result: nil for not-found, the string of the same bytes and
\* length for the string kind (0), the number of the same value for the numeric
\* kind (3), true for the boolean kind (4) with value 1 and false with value 0,
\* nil for any other kind; with another argument count it raises ArityError and
\* makes no host lookup.
C12_ReadConfig ==
    cb.name = "read_config" =>
        /\ (Len(cb.args) = 1 /\ cb.args[1].t = "string") =>
               /\ cb.raised = ""
               /\ cb.host
               /\ cb.hname = cb.args[1].s
               /\ Len(cb.pushed) = 1
               /\ LET g == cb.hres
                      v == cb.pushed[1]
                  IN  /\ g.null => v = Nil
                      /\ (~g.null /\ g.r0 = 0) =>
                             (v.t = "string" /\ v.s = g.s /\ Len(v.s) = g.r2)
                      /\ (~g.null /\ g.r0 = 3) =>
                             (v.t = "number" /\ v.hi = g.hi /\ v.lo = g.lo)
                      /\ (~g.null /\ g.r0 = 4 /\ g.lo = 1) => v = Bool(TRUE)
                      /\ (~g.null /\ g.r0 = 4 /\ g.lo = 0) => v = Bool(FALSE)
                      /\ (~g.null /\ g.r0 \notin {0, 3, 4}) => v = Nil
        /\ Len(cb.args) # 1 =>
               /\ cb.raised = "read_config() must have a single argument"
               /\ ~cb.host
               /\ cb.pushed = <<>>

\* read_config("x") gave true for the host's boolean 1
C12_Witness ==
    /\ cb.name = "read_config"
    /\ cb.args = <<Str(<<"x">>)>>
    /\ cb.host
    /\ ~cb.hres.null
    /\ cb.hres.r0 = 4
    /\ cb.hres.lo = 1
    /\ cb.pushed = <<Bool(TRUE)>>

\* C13: sandbox_init on an invalid handle returns non-zero, registers no callback
\* and attempts no environment setup; on a valid handle it registers read_config,
\* read_message and inject_message before the setup runs, returns the setup's
\* non-zero result when the setup fails and 0 only if the setup succeeded.
C13_SandboxInit ==
    pc # "new" =>
        /\ ~init.lsb => (init.ret # 0 /\ init.trace = <<>> /\ init.setup = -1)
        /\ init.lsb =>
               init.trace = <<"read_config", "read_message", "inject_message", "lsb_init">>
        /\ (init.lsb /\ init.setup # 0) => init.ret = init.setup
        /\ init.ret = 0 <=> (init.lsb /\ init.setup = 0)

\* the setup failed with status 2 after the callbacks were registered
C13_Witness ==
    /\ pc = "failed"
    /\ init.lsb
    /\ init.setup = 2
    /\ init.ret = 2
    /\ Len(init.trace) = 4

\* an entry-point call has returned, and it did not reach its teardown
EntryReturned == pc = "host" /\ func_name # ""
EntryFailed == EntryReturned /\ ~InTrace("teardown")

\* C14: every process_message or timer_event call that fails (liveness check,
\* missing entry point, guest runtime error, contract violation) calls the
\* Termination/Error Reporter exactly once before it returns non-zero.
C14_TerminateOnce ==
    EntryFailed => (ret # 0 /\ Count("terminate") = 1)

\* C14, amended: a call that fails on a live instance (missing entry point, guest
\* runtime error, contract violation) calls the Termination/Error Reporter
\* exactly once, as its last step, and returns non-zero; a call refused by the
\* liveness check returns non-zero without calling it; a call that reaches its
\* teardown does not call it.
C14_TerminateOnce_Amended ==
    /\ (EntryFailed /\ trace # <<>>) =>
           /\ ret # 0
           /\ ~lsb_lua
           /\ Count("terminate") = 1
           /\ trace[Len(trace)] = "terminate"
    /\ (EntryFailed /\ trace = <<>>) =>
           (ret # 0 /\ ~lsb_lua /\ Count("terminate") = 0)
    /\ ~EntryFailed => Count("terminate") = 0

\* process_message failed on the value its guest function returned
C14_Witness ==
    /\ EntryFailed
    /\ func_name = "process_message"
    /\ trace = <<"pcall_setup", "lua_pcall", "terminate">>
    /\ results = <<Table>>
    /\ ret = 1
    /\ lsb_error = "process_message() must return a single numeric value"

\* C15: the instance becomes terminated only in a step of a failing entry point
\* that calls the Termination/Error Reporter, which leaves the error record
\* "<entry_point>() <detail>" naming that entry point; a terminated instance stays
\* terminated and keeps that record.
C15_Terminated ==
    [][/\ (lsb_lua /\ ~lsb_lua') =>
              /\ Called(func_name') \/ Returned(func_name')
              /\ func_name' \in EntryPoints
              /\ InTraceNext("terminate")
              /\ pc' = "host"
              /\ ret' # 0
              /\ \E d \in {"function was not found",
                          "must return a single numeric value", errmsg} :
                    d # "" /\ lsb_error' = func_name' \o "() " \o d
       /\ ~lsb_lua => (~lsb_lua' /\ lsb_error' = lsb_error)]_vars

\* the record of the timer_event that failed, kept through a later call
C15_Witness ==
    /\ ~lsb_lua
    /\ pc = "host"
    /\ func_name = "process_message"
    /\ trace = <<>>
    /\ lsb_error = "timer_event() boom"

\* the positions of the operation op among the operations ops
Positions(ops, op) == {i \in 1..Len(ops) : ops[i] = op}

C17_Int32Fields ==
    (cb.name = "read_message" /\ cb.host /\ ~cb.hres.null /\ cb.hres.r0 = 2) =>
        /\ cb.hfield \in {Pid, Severity} =>
               /\ cb.bufops = <<"read32">>
               /\ cb.pushed = <<Num(IF cb.hres.lo < 0 THEN -1 ELSE 0, cb.hres.lo)>>
        /\ cb.hfield \notin {Pid, Severity} =>
               /\ cb.bufops = <<"read64">>
               /\ cb.pushed = <<Num(cb.hres.hi, cb.hres.lo)>>

\* C18: an inject_message call that fails while it resolves its arguments or its
\* payload (more than 2 arguments, a name that is no string, a first argument
\* that is no string, table or circular buffer, an encoding failure) raises its
\* error before any call to the host: it injects no message.
C18_FailureBeforeInjection ==
    [][Callback("inject_message") =>
           LET a == cb'.args
           IN  /\ (cb'.raised # "" /\ cb'.raised # InjectionLoopLimitExceeded) =>
                      /\ ~cb'.host
                      /\ cb'.hpayload = <<>>
                      /\ msg_loops' = msg_loops
               /\ (\/ Len(a) > 2
                   \/ Len(a) = 2 /\ a[2].t \notin {"string", "number"}
                   \/ Len(a) \in {1, 2} /\ a[1].t \notin {"string", "table", "userdata"}
                   \/ Len(a) \in {1, 2} /\ a[1] = UData(0)) =>
                      (cb'.raised # "" /\ ~cb'.host)
               /\ cb'.host => (cb'.raised \in {"", InjectionLoopLimitExceeded})]_vars

\* the encoding of a table failed and nothing was injected
C18_Witness ==
    /\ cb.name = "inject_message"
    /\ cb.args = <<Table>>
    /\ cb.raised = "inject_message() cound not encode protobuf - array has mixed types"
    /\ ~cb.host
    /\ msg_loops = 0
    /\ lsb_error = EncodeErr

CountNext(e) == Cardinality({i \in 1..Len(trace') : trace'[i] = e})

C20_TimerEvent ==
    [][/\ (Called("timer_event") /\ pc' = "guest") => guest_args' = host_args'
       /\ (Returned("timer_event") /\ pc = "pcall_ok") =>
              /\ ret' = 0
              /\ lsb_lua'
              /\ CountNext("terminate") = 0
              /\ lsb_error' = lsb_error]_vars

\* C20, amended: timer_event passes the elapsed nanoseconds, converted to the
\* guest's number (the value itself below 2^53, the nearest even integer from
\* there on), as the single argument of the guest function, and a timer_event
\* whose guest function does not raise returns 0 and leaves the instance live
\* whatever the function returns.
C20_TimerEvent_Amended ==
    [][/\ (Called("timer_event") /\ pc' = "guest") =>
              /\ Len(guest_args') = 1
              /\ Len(host_args') = 1
              /\ LET ns == host_args'[1]
                     arg == guest_args'[1]
                 IN  /\ arg.t = "number"
                     /\ ns.hi < 2097152 => arg = ns
                     /\ ns.hi >= 2097152 =>
                            /\ arg.hi = ns.hi
                            /\ arg.lo - ns.lo \in {-1, 0, 1}
                            /\ arg.lo % 2 = 0
       /\ (Returned("timer_event") /\ pc = "pcall_ok") =>
              /\ ret' = 0
              /\ lsb_lua'
              /\ CountNext("terminate") = 0
              /\ lsb_error' = lsb_error]_vars

\* timer_event returned 0 although its guest function returned two values
C20_Witness ==
    /\ pc = "host"
    /\ func_name = "timer_event"
    /\ host_args = <<Num(0, 7)>>
    /\ guest_args = <<Num(0, 7)>>
    /\ results = <<Nil, Num(0, 7)>>
    /\ ret = 0
    /\ lsb_lua

====
